---- MODULE Spec2Model ----
(***************************************************************************)
(* FlightAnalyzer (src/main.py): one table of flight records loaded from   *)
(* flights.csv, derived columns computed at load, one scalar summary and   *)
(* five reports that each compute a group-by table, draw it and save one   *)
(* image file.                                                             *)
(*                                                                         *)
(* Numbers.  A numeric cell is <<v>> or NaN == <<>> (missing).  A mean is  *)
(* the exact fraction <<sum, count>> over the present values; count = 0 is *)
(* the NaN mean pandas returns for an all-missing or empty group.          *)
(* A missing string cell is NoStr.  time_hour is kept as its month number  *)
(* (the only part of the timestamp the program reads).                     *)
(* Chart styling (setup_plot_style, titles, colours) carries no data and   *)
(* is left out; the figure's data and the saved file are modelled.         *)
(***************************************************************************)
EXTENDS Integers, Sequences, FiniteSets, TLC

VARIABLES file, df, stableSort, mode, pc, saved, ret

vars == <<file, df, stableSort, mode, pc, saved, ret>>

(* ---------------------------------------------------------------- bounds *)
MaxRecs == 2

(* ------------------------------------------------------ program constants *)
DelayThreshold == 15
Bins == 50
TopNDefault == 15

NaN == <<>>
NoStr == ""
(* flights.csv as the program finds it: absent, or a table of raw rows *)
NoFile == [exists |-> FALSE, rows |-> <<>>]
CsvFile(rows) == [exists |-> TRUE, rows |-> rows]

IsNa(x) == x = NaN
Val(x) == x[1]

(* Sort orders of the key columns (groupby sorts its keys ascending). *)
CarrierOrder == <<"A", "B", "C">>
AirportOrder == <<"JFK", "LAX", "ORD">>

month_order ==
  <<"January", "February", "March", "April", "May", "June",
    "July", "August", "September", "October", "November", "December">>

(* The month names in ascending string order, as indexes into month_order. *)
MonthAlpha == <<4, 8, 12, 2, 1, 7, 6, 3, 5, 11, 10, 9>>

HourFormat ==
  <<"00:00", "01:00", "02:00", "03:00", "04:00", "05:00", "06:00", "07:00",
    "08:00", "09:00", "10:00", "11:00", "12:00", "13:00", "14:00", "15:00",
    "16:00", "17:00", "18:00", "19:00", "20:00", "21:00", "22:00", "23:00">>

(* --------------------------------------------------------------- helpers *)
Reverse(s) == [i \in 1..Len(s) |-> s[Len(s) + 1 - i]]

RECURSIVE SumPresent(_)
SumPresent(s) ==
  IF s = <<>> THEN 0
  ELSE (IF IsNa(Head(s)) THEN 0 ELSE Val(Head(s))) + SumPresent(Tail(s))

CountPresent(s) == Cardinality({i \in 1..Len(s) : ~IsNa(s[i])})

(* Series.mean(): missing values are skipped; no value present gives NaN. *)
Mean(s) == <<SumPresent(s), CountPresent(s)>>

(* mean of a boolean column: the share of TRUE *)
BoolMean(s) == <<Cardinality({i \in 1..Len(s) : s[i]}), Len(s)>>

MeanIsNaN(m) == m[2] = 0
MeanLE(a, b) == a[1] * b[2] <= b[1] * a[2]
MeanGT(a, b) == a[1] * b[2] > b[1] * a[2]
MeanEQ(a, b) == a[1] * b[2] = b[1] * a[2]

Column(d, col) == [i \in 1..Len(d) |-> d[i][col]]

(* ------------------------------------------------------------- load_data *)
(* mutant: the threshold itself counts as delayed *)
IsDelayedInclusive(dep) == ~IsNa(dep) /\ Val(dep) >= DelayThreshold

(* self.df['dep_delay'] > 15: a comparison with NaN is False. *)
IsDelayed(dep) == ~IsNa(dep) /\ Val(dep) > DelayThreshold

(* mutant: a missing delay counts as zero *)
TotalDelayFillZero(dep, arr) ==
  <<(IF IsNa(dep) THEN 0 ELSE Val(dep)) + (IF IsNa(arr) THEN 0 ELSE Val(arr))>>

(* self.df['dep_delay'] + self.df['arr_delay']: NaN if either is NaN. *)
TotalDelay(dep, arr) ==
  IF IsNa(dep) \/ IsNa(arr) THEN NaN ELSE <<Val(dep) + Val(arr)>>

(* strftime('%B') of the timestamp; NaT gives a missing name. *)
MonthName(t) == IF IsNa(t) THEN NoStr ELSE month_order[Val(t)]

(* f"{x:02d}:00" *)
HourFormatted(h) == HourFormat[Val(h) + 1]

(* read_csv fails on a missing file; a missing hour makes the column float *)
(* and the format code 'd' raises ValueError for every row.                *)
LoadOk(f) == f.exists /\ \A i \in 1..Len(f.rows) : ~IsNa(f.rows[i].hour)

LoadRow(r) ==
  [name |-> r.name, origin |-> r.origin, dest |-> r.dest,
   time_hour |-> r.time_hour, hour |-> r.hour,
   dep_delay |-> r.dep_delay, arr_delay |-> r.arr_delay,
   distance |-> r.distance,
   month_name |-> MonthName(r.time_hour),
   hour_formatted |-> HourFormatted(r.hour),
   is_delayed |-> IsDelayed(r.dep_delay),
   total_delay |-> TotalDelay(r.dep_delay, r.arr_delay)]

LoadData(f) == [i \in 1..Len(f.rows) |-> LoadRow(f.rows[i])]

(* ----------------------------------------------------------- sort_values *)
(* Ascending insertion sort on the mean in column `by`; equal keys keep    *)
(* their order.                                                            *)
RECURSIVE StableAsc(_, _)
StableAsc(s, by) ==
  IF s = <<>> THEN <<>>
  ELSE LET x == s[Len(s)]
           t == StableAsc(SubSeq(s, 1, Len(s) - 1), by)
       IN  SelectSeq(t, LAMBDA y : MeanLE(y[by], x[by])) \o <<x>>
           \o SelectSeq(t, LAMBDA y : MeanGT(y[by], x[by]))

(* argsort(kind='quicksort'): sorted ascending, but quicksort does not     *)
(* promise the order of equal keys.  `stable` is what the build does with  *)
(* them: keep their order, or not.                                         *)
Argsort(s, by, stable) ==
  IF stable THEN StableAsc(s, by) ELSE StableAsc(Reverse(s), by)

(* sort_values(by, ascending=False): the non-NaN rows are reversed, sorted *)
(* ascending and reversed again; NaN rows follow in their original order.  *)
SortValuesDesc(s, by, stable) ==
  LET nonNan == SelectSeq(s, LAMBDA r : ~MeanIsNaN(r[by]))
      nan    == SelectSeq(s, LAMBDA r : MeanIsNaN(r[by]))
  IN  Reverse(Argsort(Reverse(nonNan), by, stable)) \o nan

(* DataFrame.head(n): the first n rows; for n < 0 all but the last -n. *)
HeadRows(s, n) ==
  IF n >= 0 THEN SubSeq(s, 1, IF n < Len(s) THEN n ELSE Len(s))
  ELSE SubSeq(s, 1, IF Len(s) + n > 0 THEN Len(s) + n ELSE 0)

(* --------------------------------------------------------------- reports *)
(* mutant: groupby(sort=False), the keys in the order they first appear *)
RECURSIVE CarrierKeysFirstSeen(_)
CarrierKeysFirstSeen(d) ==
  IF d = <<>> THEN <<>>
  ELSE LET keys == CarrierKeysFirstSeen(SubSeq(d, 1, Len(d) - 1))
           n == d[Len(d)].name
       IN  IF n = NoStr \/ \E k \in 1..Len(keys) : keys[k] = n
           THEN keys ELSE Append(keys, n)

(* groupby('name'): keys ascending, rows with a missing name dropped. *)
CarrierKeys(d) ==
  SelectSeq(CarrierOrder, LAMBDA c : \E i \in 1..Len(d) : d[i].name = c)

CarrierGroups(d) ==
  LET keys == CarrierKeys(d)
  IN  [k \in 1..Len(keys) |->
         LET g == SelectSeq(d, LAMBDA r : r.name = keys[k])
         IN  [name |-> keys[k],
              is_delayed |-> BoolMean(Column(g, "is_delayed")),
              dep_delay |-> Mean(Column(g, "dep_delay"))]]

(* mutant: sorted ascending *)
carrier_stats_ascending(d, stable) ==
  Reverse(SortValuesDesc(CarrierGroups(d), "is_delayed", stable))

carrier_stats(d, stable) == SortValuesDesc(CarrierGroups(d), "is_delayed", stable)

NoneArg == "None"

(* mutant: the carrier filter is not applied *)
FilterCarrierIgnored(d, carrier) == d

(* data = self.df if carrier is None else self.df[self.df['name'] == carrier] *)
FilterCarrier(d, carrier) ==
  IF carrier = NoneArg THEN d ELSE SelectSeq(d, LAMBDA r : r.name = carrier)

(* data[data['dep_delay'] > 0] *)
PositiveDelays(d) ==
  LET p == SelectSeq(d, LAMBDA r : ~IsNa(r.dep_delay) /\ Val(r.dep_delay) > 0)
  IN  [i \in 1..Len(p) |-> Val(p[i].dep_delay)]

(* histplot(bins=50): nothing is drawn for empty data; otherwise 50 equal  *)
(* bins over [min, max] (widened by 0.5 each side when min = max), the     *)
(* last bin closed on the right.                                           *)
HistCounts(xs) ==
  IF xs = <<>> THEN <<>>
  ELSE LET S  == {xs[i] : i \in 1..Len(xs)}
           mn == CHOOSE v \in S : \A w \in S : v <= w
           mx == CHOOSE v \in S : \A w \in S : v >= w
           lo2 == IF mn = mx THEN 2 * mn - 1 ELSE 2 * mn
           hi2 == IF mn = mx THEN 2 * mx + 1 ELSE 2 * mx
           bin == [i \in 1..Len(xs) |->
                     LET b == ((2 * xs[i] - lo2) * Bins) \div (hi2 - lo2)
                     IN  IF b > Bins - 1 THEN Bins - 1 ELSE b]
       IN  [b \in 1..Bins |-> Cardinality({i \in 1..Len(xs) : bin[i] = b - 1})]

delay_histogram(d, carrier) == HistCounts(PositiveDelays(FilterCarrier(d, carrier)))

(* groupby('hour_formatted')['dep_delay'].mean() *)
hourly_delays(d) ==
  LET keys == SelectSeq(HourFormat,
                LAMBDA h : \E i \in 1..Len(d) : d[i].hour_formatted = h)
  IN  [k \in 1..Len(keys) |->
         [hour_formatted |-> keys[k],
          dep_delay |-> Mean(Column(
              SelectSeq(d, LAMBDA r : r.hour_formatted = keys[k]), "dep_delay"))]]

(* groupby(['origin', 'dest']): keys ascending, rows with a missing key dropped *)
RouteOrder ==
  LET n == Len(AirportOrder)
  IN  [i \in 1..(n * n) |->
         <<AirportOrder[((i - 1) \div n) + 1], AirportOrder[((i - 1) % n) + 1]>>]

RouteGroups(d) ==
  LET keys == SelectSeq(RouteOrder,
                LAMBDA k : \E i \in 1..Len(d) :
                             d[i].origin = k[1] /\ d[i].dest = k[2])
  IN  [k \in 1..Len(keys) |->
         LET g == SelectSeq(d, LAMBDA r : r.origin = keys[k][1] /\ r.dest = keys[k][2])
         IN  [origin |-> keys[k][1], dest |-> keys[k][2],
              mean |-> Mean(Column(g, "dep_delay")),
              count |-> CountPresent(Column(g, "dep_delay"))]]

(* mutant: truncated before the sort *)
route_delays_head_first(d, top_n, stable) ==
  SortValuesDesc(HeadRows(RouteGroups(d), top_n), "mean", stable)

route_delays(d, top_n, stable) ==
  HeadRows(SortValuesDesc(RouteGroups(d), "mean", stable), top_n)

(* groupby('month_name').agg(mean), keys ascending. *)
MonthGroups(d) ==
  LET keys == SelectSeq(MonthAlpha,
                LAMBDA m : \E i \in 1..Len(d) : d[i].month_name = month_order[m])
  IN  [k \in 1..Len(keys) |->
         LET g == SelectSeq(d, LAMBDA r : r.month_name = month_order[keys[k]])
         IN  [month_name |-> month_order[keys[k]],
              dep_delay |-> Mean(Column(g, "dep_delay")),
              arr_delay |-> Mean(Column(g, "arr_delay"))]]

(* reindex(labels): one row per label, in the order of the labels; a label *)
(* the table lacks gets a NaN row.                                         *)
Reindex(t, labels) ==
  [i \in 1..Len(labels) |->
     IF \E k \in 1..Len(t) : t[k].month_name = labels[i]
     THEN t[CHOOSE k \in 1..Len(t) : t[k].month_name = labels[i]]
     ELSE [month_name |-> labels[i], dep_delay |-> <<0, 0>>, arr_delay |-> <<0, 0>>]]

(* mutant: the reindex is left out *)
monthly_stats_no_reindex(d) == MonthGroups(d)

monthly_stats(d) == Reindex(MonthGroups(d), month_order)

(* --------------------------------------------- generate_summary_statistics *)
CountOf(d, col, v) == Cardinality({i \in 1..Len(d) : d[i][col] = v})

(* Series.mode().iloc[0]: the most frequent present value, the smallest of *)
(* them when several are equally frequent; IndexError when none is present *)
HasMode(d, col, order) == \E k \in 1..Len(order) : CountOf(d, col, order[k]) > 0

MostCommon(d, col, order) ==
  LET best == CHOOSE k \in 1..Len(order) :
                /\ \A j \in 1..Len(order) :
                     CountOf(d, col, order[j]) <= CountOf(d, col, order[k])
                /\ \A j \in 1..(k - 1) :
                     CountOf(d, col, order[j]) < CountOf(d, col, order[k])
  IN  order[best]

(* mutant: the carrier with the largest number of delayed flights *)
IdxMaxDelayedCount(d) ==
  LET g == CarrierGroups(d)
      best == CHOOSE k \in 1..Len(g) :
                /\ \A j \in 1..Len(g) : g[j].is_delayed[1] <= g[k].is_delayed[1]
                /\ \A j \in 1..(k - 1) : g[k].is_delayed[1] > g[j].is_delayed[1]
  IN  g[best].name

(* groupby('name')['is_delayed'].mean().idxmax(): the label of the first   *)
(* maximum, in grouped order; ValueError on an empty table.                *)
IdxMaxDelayed(d) ==
  LET g == CarrierGroups(d)
      best == CHOOSE k \in 1..Len(g) :
                /\ \A j \in 1..Len(g) : MeanLE(g[j].is_delayed, g[k].is_delayed)
                /\ \A j \in 1..(k - 1) : MeanGT(g[k].is_delayed, g[j].is_delayed)
  IN  g[best].name

SummaryOk(d) ==
  /\ HasMode(d, "origin", AirportOrder)
  /\ HasMode(d, "dest", AirportOrder)
  /\ CarrierGroups(d) # <<>>

SummaryStatistics(d) ==
  [total_flights |-> Len(d),
   avg_dep_delay |-> Mean(Column(d, "dep_delay")),
   avg_arr_delay |-> Mean(Column(d, "arr_delay")),
   pct_delayed |-> LET m == BoolMean(Column(d, "is_delayed")) IN <<100 * m[1], m[2]>>,
   most_common_origin |-> MostCommon(d, "origin", AirportOrder),
   most_common_dest |-> MostCommon(d, "dest", AirportOrder),
   carrier_most_delays |-> IdxMaxDelayed(d),
   avg_distance |-> Mean(Column(d, "distance"))]

(* Series.plot(kind='bar') raises on a table without rows (TypeError or    *)
(* IndexError, by pandas version).                                         *)
BarPlotOk(t) == t # <<>>

(* ---------------------------------------------------------------- inputs *)
Row(n, o, dst, m, h, dep, arr, dist) ==
  [name |-> n, origin |-> o, dest |-> dst, time_hour |-> m, hour |-> h,
   dep_delay |-> dep, arr_delay |-> arr, distance |-> dist]

Rows ==
  { Row("A",   "JFK", "LAX", <<1>>,  <<8>>,  <<20>>, <<10>>, <<100>>),
    Row("A",   "JFK", "ORD", <<12>>, <<8>>,  <<15>>, <<-5>>, <<200>>),
    Row("B",   "JFK", "ORD", <<2>>,  <<17>>, <<16>>, NaN,    <<200>>),
    Row("B",   "JFK", "LAX", <<1>>,  <<17>>, NaN,    <<10>>, NaN),
    Row("C",   NoStr, "LAX", NaN,    <<8>>,  <<-3>>, NaN,    <<100>>),
    Row(NoStr, "JFK", NoStr, <<2>>,  <<17>>, NaN,    NaN,    <<200>>) }

(* The three-record scenario: A/20, A/5, B/30. *)
Scenario ==
  << Row("A", "JFK", "LAX", <<1>>, <<8>>,  <<20>>, <<10>>, <<100>>),
     Row("A", "JFK", "LAX", <<1>>, <<8>>,  <<5>>,  <<-5>>, <<100>>),
     Row("B", "JFK", "ORD", <<2>>, <<17>>, <<30>>, <<12>>, <<200>>) >>

(* A file with a record whose hour field is empty. *)
MissingHour ==
  << Row("A", "JFK", "LAX", <<1>>, <<8>>, <<20>>, <<10>>, <<100>>),
     Row("B", "JFK", "ORD", <<2>>, NaN,   <<30>>, <<12>>, <<200>>) >>

RECURSIVE SeqsUpTo(_, _)
SeqsUpTo(S, n) ==
  IF n = 0 THEN {<<>>}
  ELSE LET shorter == SeqsUpTo(S, n - 1)
       IN  shorter \cup {Append(q, r) : q \in shorter, r \in S}

(* flights.csv: missing, or at least one record *)
Files ==
  {NoFile} \cup {CsvFile(q) : q \in (SeqsUpTo(Rows, MaxRecs) \ {<<>>}) \cup {Scenario, MissingHour}}

CarrierArgs == {NoneArg, "A", "Z"}
TopNs == {0, 1, TopNDefault}

(* ----------------------------------------------------------- the program *)
(* mutant: the summary is printed after the first plot *)
MainOrderSummaryLate ==
  <<"load", "delay_distribution", "summary", "carrier_performance",
    "hourly_delays", "route_analysis", "monthly_trends", "open_plots", "done">>

MainOrder ==
  <<"load", "summary", "delay_distribution", "carrier_performance",
    "hourly_delays", "route_analysis", "monthly_trends", "open_plots", "done">>

After(step) == MainOrder[(CHOOSE i \in 1..Len(MainOrder) : MainOrder[i] = step) + 1]

(* api: the caller holds the analyzer and calls its methods in any order;  *)
(* main: the __main__ script, where an exception ends the process.         *)
CanCall(step) == (mode = "api" /\ pc = "ready") \/ (mode = "main" /\ pc = step)
Goto(step, ok) ==
  IF mode = "api" THEN "ready" ELSE IF ok THEN After(step) ELSE "failed"

Result(op, arg, ok, value) ==
  [op |-> op, arg |-> arg, status |-> IF ok THEN "ok" ELSE "error",
   value |-> IF ok THEN value ELSE <<>>]

Init ==
  /\ file \in Files
  /\ stableSort \in BOOLEAN
  /\ mode \in {"main", "api"}
  /\ df = <<>>
  /\ pc = "load"
  /\ saved = {}
  /\ ret = Result("none", NoneArg, TRUE, <<>>)

(* FlightAnalyzer('flights.csv') *)
Load ==
  /\ pc = "load"
  /\ IF LoadOk(file)
     THEN /\ df' = LoadData(file)
          /\ pc' = IF mode = "api" THEN "ready" ELSE After("load")
     ELSE /\ df' = df
          /\ pc' = "failed"
  /\ ret' = Result("load", NoneArg, LoadOk(file), <<>>)
  /\ UNCHANGED <<file, stableSort, mode, saved>>

generate_summary_statistics ==
  /\ CanCall("summary")
  /\ ret' = Result("summary", NoneArg, SummaryOk(df),
                   IF SummaryOk(df) THEN SummaryStatistics(df) ELSE <<>>)
  /\ pc' = Goto("summary", SummaryOk(df))
  /\ UNCHANGED <<file, df, stableSort, mode, saved>>

(* mutant: the filtered table is assigned back to self.df *)
plot_delay_distribution_rebinds_df(carrier) ==
  /\ CanCall("delay_distribution")
  /\ mode = "main" => carrier = NoneArg
  /\ ret' = Result("delay_distribution", carrier, TRUE, delay_histogram(df, carrier))
  /\ df' = FilterCarrier(df, carrier)
  /\ saved' = saved \cup {"delay_distribution.png"}
  /\ pc' = Goto("delay_distribution", TRUE)
  /\ UNCHANGED <<file, stableSort, mode>>

plot_delay_distribution(carrier) ==
  /\ CanCall("delay_distribution")
  /\ mode = "main" => carrier = NoneArg
  /\ ret' = Result("delay_distribution", carrier, TRUE, delay_histogram(df, carrier))
  /\ saved' = saved \cup {"delay_distribution.png"}
  /\ pc' = Goto("delay_distribution", TRUE)
  /\ UNCHANGED <<file, df, stableSort, mode>>

plot_carrier_performance ==
  /\ CanCall("carrier_performance")
  /\ LET t == carrier_stats(df, stableSort)
     IN  /\ ret' = Result("carrier_performance", NoneArg, BarPlotOk(t), t)
         /\ saved' = IF BarPlotOk(t) THEN saved \cup {"carrier_performance.png"}
                     ELSE saved
         /\ pc' = Goto("carrier_performance", BarPlotOk(t))
  /\ UNCHANGED <<file, df, stableSort, mode>>

plot_hourly_delays ==
  /\ CanCall("hourly_delays")
  /\ ret' = Result("hourly_delays", NoneArg, TRUE, hourly_delays(df))
  /\ saved' = saved \cup {"hourly_delays.png"}
  /\ pc' = Goto("hourly_delays", TRUE)
  /\ UNCHANGED <<file, df, stableSort, mode>>

plot_route_analysis(top_n) ==
  /\ CanCall("route_analysis")
  /\ mode = "main" => top_n = TopNDefault
  /\ LET t == route_delays(df, top_n, stableSort)
     IN  /\ ret' = Result("route_analysis", top_n, BarPlotOk(t), t)
         /\ saved' = IF BarPlotOk(t) THEN saved \cup {"route_analysis.png"}
                     ELSE saved
         /\ pc' = Goto("route_analysis", BarPlotOk(t))
  /\ UNCHANGED <<file, df, stableSort, mode>>

plot_monthly_trends ==
  /\ CanCall("monthly_trends")
  /\ ret' = Result("monthly_trends", NoneArg, TRUE, monthly_stats(df))
  /\ saved' = saved \cup {"monthly_trends.png"}
  /\ pc' = Goto("monthly_trends", TRUE)
  /\ UNCHANGED <<file, df, stableSort, mode>>

(* os.system('start ...png') for each plot: no effect on the analyzer *)
open_plots ==
  /\ mode = "main" /\ pc = "open_plots"
  /\ pc' = After("open_plots")
  /\ UNCHANGED <<file, df, stableSort, mode, saved, ret>>

DelayDistributionStep == \E carrier \in CarrierArgs : plot_delay_distribution(carrier)
RouteAnalysisStep == \E top_n \in TopNs : plot_route_analysis(top_n)

Next ==
  \/ Load
  \/ generate_summary_statistics
  \/ DelayDistributionStep
  \/ plot_carrier_performance
  \/ plot_hourly_delays
  \/ RouteAnalysisStep
  \/ plot_monthly_trends
  \/ open_plots

Spec == Init /\ [][Next]_vars

(* The builds whose sort keeps equal keys in their order: numpy's          *)
(* quicksort finishes partitions of at most 16 elements by insertion.      *)
InitStable == Init /\ stableSort
SpecStable == InitStable /\ [][Next]_vars

(* ------------------------------------------------------------ properties *)
Loaded == pc # "load" /\ ~(ret.op = "load" /\ ret.status = "error")
Returned(op) == ret.op = op /\ ret.status = "ok"

AllPlots ==
  {"delay_distribution.png", "carrier_performance.png", "hourly_delays.png",
   "route_analysis.png", "monthly_trends.png"}

(* What a report gives on the record set as it was loaded from the file. *)
FreshResult(op, arg) ==
  LET d == LoadData(file)
  IN  CASE op = "delay_distribution" -> Result(op, arg, TRUE, delay_histogram(d, arg))
        [] op = "carrier_performance" ->
             Result(op, arg, BarPlotOk(carrier_stats(d, stableSort)),
                    carrier_stats(d, stableSort))
        [] op = "hourly_delays" -> Result(op, arg, TRUE, hourly_delays(d))
        [] op = "route_analysis" ->
             Result(op, arg, BarPlotOk(route_delays(d, arg, stableSort)),
                    route_delays(d, arg, stableSort))
        [] op = "monthly_trends" -> Result(op, arg, TRUE, monthly_stats(d))
        [] OTHER -> ret

(* C1: once loaded, the record set stays as loaded whatever reports are    *)
(* called, and every report call, in any order and however often, gives    *)
(* the result it gives on the freshly loaded record set.                   *)
C1_ReportsLeaveRecordSet ==
  Loaded => /\ df = LoadData(file)
            /\ ret = FreshResult(ret.op, ret.arg)

C1_Witness ==
  /\ mode = "api" /\ saved = AllPlots
  /\ Returned("carrier_performance") /\ Len(ret.value) = 2

(* C2: every loaded record is delayed iff its dep_delay is present and     *)
(* strictly above 15: 15 is not delayed, 16 is, a missing value is not.    *)
C2_IsDelayedStrict ==
  Loaded =>
    \A i \in 1..Len(df) :
      /\ df[i].is_delayed <=> (df[i].dep_delay # NaN /\ df[i].dep_delay[1] > 15)
      /\ df[i].dep_delay = <<15>> => ~df[i].is_delayed
      /\ df[i].dep_delay = <<16>> => df[i].is_delayed
      /\ df[i].dep_delay = NaN => ~df[i].is_delayed
      /\ df[i].dep_delay = file.rows[i].dep_delay

C2_Witness ==
  /\ Loaded
  /\ \E i, j \in 1..Len(df) : df[i].dep_delay = <<15>> /\ df[j].dep_delay = <<16>>

(* C3: total_delay is dep_delay + arr_delay when both are present and is   *)
(* missing when either is missing.                                         *)
C3_TotalDelay ==
  Loaded =>
    \A i \in 1..Len(df) :
      LET dep == file.rows[i].dep_delay
          arr == file.rows[i].arr_delay
      IN  IF dep # NaN /\ arr # NaN
          THEN df[i].total_delay = <<dep[1] + arr[1]>>
          ELSE df[i].total_delay = NaN

C3_Witness ==
  /\ Loaded
  /\ \E i, j \in 1..Len(df) :
       /\ df[i].total_delay # NaN
       /\ df[j].dep_delay # NaN /\ df[j].arr_delay = NaN /\ df[j].total_delay = NaN

RECURSIVE SumOver(_, _, _)
SumOver(d, col, I) ==
  IF I = {} THEN 0
  ELSE LET i == CHOOSE j \in I : TRUE
       IN  (IF d[i][col] = NaN THEN 0 ELSE d[i][col][1]) + SumOver(d, col, I \ {i})

(* the mean of column col over the records with indexes I, as a fraction *)
MeanOver(d, col, I) ==
  <<SumOver(d, col, I), Cardinality({i \in I : d[i][col] # NaN})>>

SameMean(m, e) == IF e[2] = 0 THEN m[2] = 0 ELSE m[2] # 0 /\ MeanEQ(m, e)

NamesIn(d) == {d[i].name : i \in 1..Len(d)} \ {NoStr}
RecordsOf(d, n) == {i \in 1..Len(d) : d[i].name = n}
DelayedOf(d, n) ==
  {i \in RecordsOf(d, n) : d[i].dep_delay # NaN /\ d[i].dep_delay[1] > 15}

(* C4: one row per distinct carrier, with its delay rate and mean          *)
(* dep_delay, ordered by non-increasing delay rate.                        *)
C4_CarrierPerformanceSorted ==
  Returned("carrier_performance") =>
    LET t == ret.value
    IN  /\ {t[k].name : k \in 1..Len(t)} = NamesIn(df)
        /\ Len(t) = Cardinality(NamesIn(df))
        /\ \A k \in 1..Len(t) :
             /\ SameMean(t[k].is_delayed,
                         <<Cardinality(DelayedOf(df, t[k].name)),
                           Cardinality(RecordsOf(df, t[k].name))>>)
             /\ SameMean(t[k].dep_delay,
                         MeanOver(df, "dep_delay", RecordsOf(df, t[k].name)))
        /\ \A k \in 1..(Len(t) - 1) :
             MeanLE(t[k + 1].is_delayed, t[k].is_delayed)

C4_Witness ==
  /\ Returned("carrier_performance")
  /\ Len(ret.value) = 2
  /\ MeanGT(ret.value[1].is_delayed, ret.value[2].is_delayed)
  /\ ret.value[1].name = "B"

(* the (origin, dest) pairs of the records that have both *)
RoutesIn(d) ==
  {<<d[i].origin, d[i].dest>> : i \in {j \in 1..Len(d) :
                                         d[j].origin # NoStr /\ d[j].dest # NoStr}}
RouteRecords(d, r) == {i \in 1..Len(d) : d[i].origin = r[1] /\ d[i].dest = r[2]}
RouteMean(d, r) == MeanOver(d, "dep_delay", RouteRecords(d, r))
Returned_Routes(t) == {<<t[k].origin, t[k].dest>> : k \in 1..Len(t)}
MinOf(a, b) == IF a < b THEN a ELSE b

(* a >= b on means; a comparison with an undefined (NaN) mean is false *)
MeanGE(a, b) == a[2] # 0 /\ b[2] # 0 /\ MeanLE(b, a)

MonthRecords(d, m) == {i \in 1..Len(d) : d[i].time_hour = <<m>>}

(* C6: twelve entries, January to December in that order; a month with     *)
(* records holds their mean dep_delay and arr_delay, a month without       *)
(* records holds an undefined entry.                                       *)
C6_MonthlyTrendsTwelve ==
  ret.op = "monthly_trends" =>
    /\ ret.status = "ok"
    /\ Len(ret.value) = 12
    /\ \A m \in 1..12 :
         /\ ret.value[m].month_name =
              <<"January", "February", "March", "April", "May", "June", "July",
                "August", "September", "October", "November", "December">>[m]
         /\ SameMean(ret.value[m].dep_delay,
                     MeanOver(df, "dep_delay", MonthRecords(df, m)))
         /\ SameMean(ret.value[m].arr_delay,
                     MeanOver(df, "arr_delay", MonthRecords(df, m)))
         /\ MonthRecords(df, m) = {} =>
              ret.value[m].dep_delay[2] = 0 /\ ret.value[m].arr_delay[2] = 0

C6_Witness ==
  /\ Returned("monthly_trends")
  /\ MonthRecords(df, 12) # {} /\ MonthRecords(df, 2) # {}
  /\ ret.value[12].dep_delay[2] # 0 /\ ret.value[1].dep_delay[2] = 0

(* C7: a carrier filter that matches no record raises nothing and gives a  *)
(* histogram without a non-zero bucket.                                    *)
C7_AbsentCarrierHistogram ==
  (ret.op = "delay_distribution" /\ ret.arg # NoneArg
     /\ RecordsOf(df, ret.arg) = {}) =>
    /\ ret.status = "ok"
    /\ \A b \in 1..Len(ret.value) : ret.value[b] = 0
    /\ "delay_distribution.png" \in saved

C7_Witness ==
  /\ Returned("delay_distribution") /\ ret.arg = "Z"
  /\ \E i \in 1..Len(df) : df[i].dep_delay # NaN /\ df[i].dep_delay[1] > 0

Rate(d, n) == <<Cardinality(DelayedOf(d, n)), Cardinality(RecordsOf(d, n))>>
NamePos(n) == CHOOSE k \in 1..Len(CarrierOrder) : CarrierOrder[k] = n

(* C8: the carrier reported has the maximum delayed-flight rate, the first *)
(* such carrier in grouped (ascending name) order; A/20, A/5, B/30 gives   *)
(* 3 flights, 66.67% delayed and carrier B.                                *)
C8_CarrierWithMostDelays ==
  Returned("summary") =>
    LET c == ret.value.carrier_most_delays
    IN  /\ c \in NamesIn(df)
        /\ \A n \in NamesIn(df) :
             /\ MeanLE(Rate(df, n), Rate(df, c))
             /\ (MeanEQ(Rate(df, n), Rate(df, c)) => NamePos(c) <= NamePos(n))
        /\ ret.value.total_flights = Len(df)
        /\ file = CsvFile(Scenario) =>
             /\ ret.value.total_flights = 3
             /\ (2 * 100 * ret.value.pct_delayed[1] + ret.value.pct_delayed[2])
                  \div (2 * ret.value.pct_delayed[2]) = 6667
             /\ c = "B"

C8_Witness == Returned("summary") /\ file = CsvFile(Scenario)

(* C9 as stated: a failed run of the main sequence has written no image. *)
C9_AsStated == (mode = "main" /\ pc = "failed") => saved = {}

(* C9, amended: a run of the main sequence fails in load or in the summary *)
(* with no image written, or in plot_route_analysis (no record has both    *)
(* origin and dest) with the images of the three earlier reports written.  *)
C9_FailureAndArtifacts ==
  (mode = "main" /\ pc = "failed") =>
    \/ ret.op \in {"load", "summary"} /\ saved = {}
    \/ /\ ret.op = "route_analysis" /\ RoutesIn(df) = {}
       /\ saved = {"delay_distribution.png", "carrier_performance.png",
                   "hourly_delays.png"}

C9_Witness ==
  mode = "main" /\ pc = "failed" /\ ret.op = "summary" /\ Len(df) = 2

FirstSeen(d, n) == CHOOSE i \in 1..Len(d) :
                     d[i].name = n /\ \A j \in 1..(i - 1) : d[j].name # n

(* C10 as stated: carriers with equal delay rates come in the order in     *)
(* which they first appear in the input.                                   *)
C10_AsStated ==
  Returned("carrier_performance") =>
    \A k \in 1..(Len(ret.value) - 1) :
      MeanEQ(ret.value[k].is_delayed, ret.value[k + 1].is_delayed) =>
        FirstSeen(df, ret.value[k].name) < FirstSeen(df, ret.value[k + 1].name)

Reorderings(d) ==
  {[i \in 1..Len(d) |-> d[p[i]]] :
     p \in {q \in [1..Len(d) -> 1..Len(d)] : \A i, j \in 1..Len(d) : q[i] = q[j] => i = j}}

(* C10, amended: the order of carriers with equal delay rates does not     *)
(* depend on the order of the input records (the groups are keyed in       *)
(* ascending name order before the sort); where the sort keeps equal keys  *)
(* in order they come in ascending carrier-name order.                     *)
C10_TieOrderGrouped ==
  Returned("carrier_performance") =>
    /\ \A d \in Reorderings(df) : carrier_stats(d, stableSort) = ret.value
    /\ stableSort =>
         \A k \in 1..(Len(ret.value) - 1) :
           MeanEQ(ret.value[k].is_delayed, ret.value[k + 1].is_delayed) =>
             NamePos(ret.value[k].name) < NamePos(ret.value[k + 1].name)

C10_Witness ==
  /\ Returned("carrier_performance") /\ stableSort
  /\ Len(ret.value) = 2
  /\ MeanEQ(ret.value[1].is_delayed, ret.value[2].is_delayed)
  /\ FirstSeen(df, ret.value[2].name) < FirstSeen(df, ret.value[1].name)

====
